---------------------------- MODULE Spec2Model ----------------------------
(***************************************************************************)
(* A model of the saffron-lang analysis core: the nom-based lexer          *)
(* (parsing.rs lex_line and its rules), the combiner of per-line partial   *)
(* parses (combine_parts), the document pipeline (parse_expr) and the      *)
(* language-server backend that stores the document text and answers       *)
(* hover requests (main.rs).                                               *)
(*                                                                         *)
(* Text is a sequence of one-character strings.  A nom-locate span is a    *)
(* record [offset, fragment]: the fragment still to be read and the number *)
(* of characters already consumed from the start of the input.             *)
(***************************************************************************)
EXTENDS Integers, Sequences, FiniteSets, TLC

VARIABLES
    input,      \* lex_line: the argument `input`
    rest,       \* lex_line: the local `rest` (a span)
    tokens,     \* lex_line: the local `tokens`, index 1 is vector index 0
    lexRet,     \* lex_line: "idle" (not called), "loop" (running) or returned
    items,      \* the fold of parse_expr: the ordered results being combined
    k,          \* the fold: index of the next result to combine
    acc,        \* the fold: the accumulator
    call,       \* the latest call of combine_parts: arguments and result
    doc,        \* parse_expr: the argument `input`, the document text
    lineIdx,    \* parse_expr: the line the iterator `lines` is at
    partials,   \* parse_expr: the local `partials`
    parsePc,    \* parse_expr: where the call is
    exprRet,    \* parse_expr: the value returned
    text_file,  \* Backend: the text behind Arc<Mutex<String>>
    holder,     \* Backend: the task holding the mutex of text_file, or "none"
    pc,         \* per handler invocation: where it is
    req,        \* per handler invocation: its parameters and loop index
    resp,       \* per handler invocation: the answer of its last hover
    opened      \* history: the identities did_open has stored a text for

lexVars == <<input, rest, tokens, lexRet>>

foldVars == <<items, k, acc, call>>

parseVars == <<doc, lineIdx, partials, parsePc, exprRet>>

serverVars == <<text_file, holder, pc, req, resp, opened>>

vars ==
    <<input, rest, tokens, lexRet, items, k, acc, call,
      doc, lineIdx, partials, parsePc, exprRet,
      text_file, holder, pc, req, resp, opened>>

-----------------------------------------------------------------------------
(* Bounds of the model *)

\* Inputs of the lexer are concatenations of at most MaxPieces pieces.
MaxPieces == 3

\* The token vector of one lex_line call is explored up to this length.
MaxTokens == 6

\* The longest sequence of results folded with combine_parts.
MaxItems == 4

\* The longest error list of one result given to combine_parts.
MaxErrs == 2

\* The longest document given to parse_expr, in characters.
MaxDoc == 4

\* The most content changes one change notification carries.
MaxChanges == 1

\* The largest column and the largest line of a hover request.
MaxCol == 2

MaxLine == 1

-----------------------------------------------------------------------------
(* Characters and text *)

Letters == {"a", "d", "e", "h", "l", "m", "o", "r", "u", "w", "F"}

Digits == {"1"}

\* char::is_alphanumeric
Alphanumeric == Letters \cup Digits

\* nom's space1 accepts spaces and tabs
SpaceChars == {" ", "\t"}

Quote == "\""

Char == Alphanumeric \cup SpaceChars \cup {Quote, "=", "!", "\n"}

KwModule == <<"m", "o", "d", "u", "l", "e">>

KwWhere == <<"w", "h", "e", "r", "e">>

Hello == <<"h", "e", "l", "l", "o">>

ModuleFooWhere == KwModule \o <<" ", "F", "o", "o", " ">> \o KwWhere

Drop(s, n) == SubSeq(s, n + 1, Len(s))

Take(s, n) == SubSeq(s, 1, n)

\* The length of the longest prefix of s made of characters of set.
RECURSIVE PrefixLen(_, _)
PrefixLen(set, s) ==
    IF s = <<>> \/ Head(s) \notin set THEN 0 ELSE 1 + PrefixLen(set, Tail(s))

IsPrefix(t, s) == Len(t) <= Len(s) /\ Take(s, Len(t)) = t

-----------------------------------------------------------------------------
(* Spans and the nom combinators the lexer uses.  A parser result is       *)
(* [ok, rest, out]: on an error rest is the span the parser was given.     *)

\* Span::new
NewSpan(str) == [offset |-> 0, fragment |-> str]

\* The span left after n characters have been consumed.
Advance(s, n) == [offset |-> s.offset + n, fragment |-> Drop(s.fragment, n)]

PErr(s) == [ok |-> FALSE, rest |-> s, out |-> <<>>]

POk(s, n) == [ok |-> TRUE, rest |-> Advance(s, n), out |-> Take(s.fragment, n)]

\* bytes::complete::tag
Tag(t, s) == IF IsPrefix(t, s.fragment) THEN POk(s, Len(t)) ELSE PErr(s)

\* space1 that takes one space or tab only
Space1_one_character(s) ==
    LET n == PrefixLen(SpaceChars, s.fragment)
    IN  IF n = 0 THEN PErr(s) ELSE POk(s, 1)

\* character::complete::space1: one or more spaces or tabs
Space1(s) ==
    LET n == PrefixLen(SpaceChars, s.fragment)
    IN  IF n = 0 THEN PErr(s) ELSE POk(s, n)

\* bytes::complete::take_while: zero or more characters of set, never fails
TakeWhile(set, s) == POk(s, PrefixLen(set, s.fragment))

\* bytes::complete::is_not: one or more characters not in set
IsNot(set, s) ==
    LET n == PrefixLen(Char \ set, s.fragment)
    IN  IF n = 0 THEN PErr(s) ELSE POk(s, n)

\* sequence::delimited(tag(open), is_not(open), tag(close))
Delimited(open, close, s) ==
    LET a == Tag(open, s)
        b == IsNot({Quote}, a.rest)
        c == Tag(close, b.rest)
    IN  IF ~a.ok THEN PErr(s)
        ELSE IF ~b.ok THEN PErr(s)
        ELSE IF ~c.ok THEN PErr(s)
        ELSE [ok |-> TRUE, rest |-> c.rest, out |-> b.out]

\* nom_locate::position followed by location_offset()
Position(s) == s.offset

-----------------------------------------------------------------------------
(* Tokens *)

\* TokenContent; text is used by String and Symbol, len by Space
Content(kind, text, len) == [kind |-> kind, text |-> text, len |-> len]

CModule == Content("Module", <<>>, 0)

CWhere == Content("Where", <<>>, 0)

CEquals == Content("Equals", <<>>, 0)

CString(str) == Content("String", str, 0)

CSpace(n) == Content("Space", <<>>, n)

CSymbol(sym) == Content("Symbol", sym, 0)

\* Token::new
Token(p, c) == [position |-> p, content |-> c]

LexOk(s, tok) == [ok |-> TRUE, rest |-> s, token |-> tok]

LexErr(s) == [ok |-> FALSE, rest |-> s, token |-> Token(0, CSymbol(<<>>))]

-----------------------------------------------------------------------------
(* The lexer rules *)

lex_module(s) ==
    LET r == Tag(KwModule, s)
    IN  IF r.ok THEN LexOk(r.rest, Token(Position(r.rest), CModule)) ELSE LexErr(s)

lex_where(s) ==
    LET r == Tag(KwWhere, s)
    IN  IF r.ok THEN LexOk(r.rest, Token(Position(r.rest), CWhere)) ELSE LexErr(s)

lex_equals(s) ==
    LET r == Tag(<<"=">>, s)
    IN  IF r.ok THEN LexOk(r.rest, Token(Position(r.rest), CEquals)) ELSE LexErr(s)

\* lex_space with the position taken before the run instead of after it
lex_space_position_before(s) ==
    LET r == Space1(s)
    IN  IF r.ok
        THEN LexOk(r.rest, Token(Position(s), CSpace(Len(r.out))))
        ELSE LexErr(s)

lex_space(s) ==
    LET r == Space1(s)
    IN  IF r.ok
        THEN LexOk(r.rest, Token(Position(r.rest), CSpace(Len(r.out))))
        ELSE LexErr(s)

lex_reserved_name(s) ==
    LET m == lex_module(s)
    IN  IF m.ok THEN m ELSE lex_where(s)

\* lex_symbol that stops after the first character
lex_symbol_one_character(s) ==
    LET r == TakeWhile(Alphanumeric, s)
        one == IF r.out = <<>> THEN r ELSE POk(s, 1)
    IN  IF r.ok
        THEN LexOk(one.rest, Token(Position(one.rest), CSymbol(one.out)))
        ELSE LexErr(s)

lex_symbol(s) ==
    LET r == TakeWhile(Alphanumeric, s)
    IN  IF r.ok
        THEN LexOk(r.rest, Token(Position(r.rest), CSymbol(r.out)))
        ELSE LexErr(s)

lex_single_line_string(s) ==
    LET r == Delimited(<<Quote>>, <<Quote>>, s)
    IN  IF r.ok
        THEN LexOk(r.rest, Token(Position(r.rest), CString(r.out)))
        ELSE LexErr(s)

\* lexer with lex_symbol tried before lex_reserved_name
lexer_symbol_before_reserved(s) ==
    LET r1 == lex_space(s)
        r2 == lex_single_line_string(s)
        r3 == lex_reserved_name(s)
        r4 == lex_equals(s)
        r5 == lex_symbol(s)
    IN  IF r1.ok THEN r1
        ELSE IF r2.ok THEN r2
        ELSE IF r5.ok /\ r5.rest # s THEN r5
        ELSE IF r3.ok THEN r3
        ELSE IF r4.ok THEN r4
        ELSE r5

\* alt((lex_space, lex_single_line_string, lex_reserved_name, lex_equals,
\*      lex_symbol)): the first rule that succeeds
lexer(s) ==
    LET r1 == lex_space(s)
        r2 == lex_single_line_string(s)
        r3 == lex_reserved_name(s)
        r4 == lex_equals(s)
        r5 == lex_symbol(s)
    IN  IF r1.ok THEN r1
        ELSE IF r2.ok THEN r2
        ELSE IF r3.ok THEN r3
        ELSE IF r4.ok THEN r4
        ELSE r5

-----------------------------------------------------------------------------
(* lex_line *)

\* Result<Vec<Token>, ParseError>
RetOk(toks) == [st |-> "Ok", tokens |-> toks, err |-> "none"]

RetErr(e) == [st |-> "Err", tokens |-> <<>>, err |-> e]

NoRet(st) == [st |-> st, tokens |-> <<>>, err |-> "none"]

\* tokens.insert(0, token)
Insert0(toks, tok) == <<tok>> \o toks

\* The entry of lex_line: rest = Span::new(input), tokens = vec![]
LexCall(str) ==
    /\ input' = str
    /\ rest' = NewSpan(str)
    /\ tokens' = <<>>
    /\ lexRet' = NoRet("loop")

\* One iteration of the loop of lex_line.
LexLineStep ==
    /\ lexRet.st = "loop"
    /\ rest.fragment # <<>> => Len(tokens) < MaxTokens
    /\ IF rest.fragment = <<>>
       THEN /\ lexRet' = RetOk(tokens)
            /\ UNCHANGED <<input, rest, tokens>>
       ELSE LET r == lexer(rest)
            IN  IF r.ok
                THEN /\ rest' = r.rest
                     /\ tokens' = Insert0(tokens, r.token)
                     /\ UNCHANGED <<input, lexRet>>
                ELSE /\ lexRet' = RetErr("Wrong")
                     /\ UNCHANGED <<input, rest, tokens>>
    /\ UNCHANGED <<foldVars, parseVars, serverVars>>

-----------------------------------------------------------------------------
(* PartialExpr, ParseError and combine_parts *)

\* enum ParseError
ParseErrors == {"Wrong"}

\* Option<Partial>: enum Partial has the one value Empty
OptPartial == {"None", "SomeEmpty"}

\* PartialExpr::Empty
PEmpty == [tag |-> "Empty", parts |-> <<>>]

\* PartialExpr::Partial(a, b, c)
PPartial(a, b, c) == [tag |-> "Partial", parts |-> <<a, b, c>>]

\* The absent value of an Err result.
NoValue == [tag |-> "NoValue", parts |-> <<>>]

\* Result<PartialExpr, Vec<ParseError>>
Ok(v) == [st |-> "Ok", val |-> v, errs |-> <<>>]

Err(es) == [st |-> "Err", val |-> NoValue, errs |-> es]

\* vec![le, re].concat()
Concat(le, re) == le \o re

\* combine_parts with the arm (Ok, Err) keeping the left value
combine_parts_right_errors_ignored(left, right) ==
    IF left.st = "Ok"
    THEN Ok(left.val)
    ELSE IF right.st = "Err"
         THEN Err(Concat(left.errs, right.errs))
         ELSE Err(left.errs)

\* combine_parts with the arm (Err, Err) keeping the left errors only
combine_parts_right_errors_dropped(left, right) ==
    IF left.st = "Ok"
    THEN IF right.st = "Ok" THEN Ok(left.val) ELSE Err(right.errs)
    ELSE Err(left.errs)

combine_parts(left, right) ==
    IF left.st = "Ok"
    THEN IF right.st = "Ok" THEN Ok(left.val) ELSE Err(right.errs)
    ELSE IF right.st = "Err"
         THEN Err(Concat(left.errs, right.errs))
         ELSE Err(left.errs)

\* Arguments and result of a call of combine_parts.
NoCall == [made |-> FALSE, left |-> Ok(PEmpty), right |-> Ok(PEmpty), out |-> Ok(PEmpty)]

Call(l, r, o) == [made |-> TRUE, left |-> l, right |-> r, out |-> o]

\* One step of Iterator::fold(init, combine_parts): acc = f(acc, item)
FoldStep ==
    /\ k <= Len(items)
    /\ LET out == combine_parts(acc, items[k])
       IN  /\ call' = Call(acc, items[k], out)
           /\ acc' = out
    /\ k' = k + 1
    /\ UNCHANGED <<items, lexVars, parseVars, serverVars>>

-----------------------------------------------------------------------------
(* parse_expr *)

\* The segments of s between line feeds; there is always at least one.
RECURSIVE SplitLines(_)
SplitLines(s) ==
    LET n == PrefixLen(Char \ {"\n"}, s)
    IN  IF n = Len(s) THEN <<s>>
        ELSE <<Take(s, n)>> \o SplitLines(Drop(s, n + 1))

\* str::lines: the lines without their line feed; an empty last segment
\* (the text is empty or ends with a line feed) is no line.
Lines(s) ==
    LET segs == SplitLines(s)
    IN  IF segs[Len(segs)] = <<>> THEN SubSeq(segs, 1, Len(segs) - 1) ELSE segs

\* Tokens::new
NewTokens(offset, toks) == [offset |-> offset, tokens |-> toks]

\* Result<PartialExpr, ParseError> and Result<Expr, ParseError>
Ok1(v) == [st |-> "Ok", val |-> v, err |-> "none"]

Err1(e) == [st |-> "Err", val |-> NoValue, err |-> e]

NoExpr == [st |-> "none", val |-> NoValue, err |-> "none"]

parse_partial(toks) == Ok1(PEmpty)

complete_expression(part) == Err1("Wrong")

\* partials.iter().map(Ok)
MapOk(ps) == [i \in 1..Len(ps) |-> Ok(ps[i])]

\* No call of parse_expr is in progress.
ParseIdle ==
    /\ doc = <<>>
    /\ lineIdx = 1
    /\ partials = <<>>
    /\ parsePc = "idle"
    /\ exprRet = NoExpr

\* for line in lines: lex_line(line) is entered
ParseNextLine ==
    /\ parsePc = "for"
    /\ lineIdx <= Len(Lines(doc))
    /\ LexCall(Lines(doc)[lineIdx])
    /\ parsePc' = "lex"
    /\ UNCHANGED <<doc, lineIdx, partials, exprRet, foldVars, serverVars>>

\* lex_line has returned: the body of the loop over the lines
ParseLineLexed ==
    /\ parsePc = "lex"
    /\ lexRet.st \in {"Ok", "Err"}
    /\ IF lexRet.st = "Ok"
       THEN LET toks == NewTokens(0, lexRet.tokens)
                part == parse_partial(toks)
            IN  IF part.st = "Ok"
                THEN partials' = Append(partials, part.val)
                ELSE partials' = partials
       ELSE partials' = partials
    /\ lineIdx' = lineIdx + 1
    /\ parsePc' = "for"
    /\ lexRet' = NoRet("idle")
    /\ UNCHANGED <<input, rest, tokens, doc, exprRet, foldVars, serverVars>>

\* The lines are exhausted: the fold over partials.iter().map(Ok) starts
\* from Ok(PartialExpr::Empty)
ParseFoldStart ==
    /\ parsePc = "for"
    /\ lineIdx > Len(Lines(doc))
    /\ items' = <<Ok(PEmpty)>> \o MapOk(partials)
    /\ acc' = Ok(PEmpty)
    /\ k' = 2
    /\ call' = NoCall
    /\ parsePc' = "fold"
    /\ UNCHANGED <<doc, lineIdx, partials, exprRet, lexVars, serverVars>>

\* The fold is done: complete_expression or the error of the fold
ParseReturn ==
    /\ parsePc = "fold"
    /\ k > Len(items)
    /\ exprRet' = IF acc.st = "Ok" THEN complete_expression(acc.val) ELSE Err1("Wrong")
    /\ parsePc' = "done"
    /\ UNCHANGED <<doc, lineIdx, partials, lexVars, foldVars, serverVars>>

-----------------------------------------------------------------------------
(* The language-server backend *)

\* The handler invocations that may be in flight together.
Tasks == {"t1", "t2"}

\* Document identities (the uri of a text document).  Only did_open is
\* modelled with its uri: no handler reads it but to log it.
Uris == {"d1", "d2"}

\* TextDocumentContentChangeEvent: range and range_length are Some (TRUE)
\* or None (FALSE)
Change(range, range_length, text) ==
    [range |-> range, range_length |-> range_length, text |-> text]

\* The parameters of a request; a handler reads the fields of its own kind.
\* ci is the position of the loop of did_change in content_changes.
Req(kind, uri, text, changes, line, character) ==
    [kind |-> kind, uri |-> uri, text |-> text, changes |-> changes, ci |-> 1,
     line |-> line, character |-> character]

NoReq == Req("none", "d1", <<>>, <<>>, 0, 0)

\* The handler returns: its parameters are dropped.
Return(t) ==
    /\ pc' = [pc EXCEPT ![t] = "idle"]
    /\ req' = [req EXCEPT ![t] = NoReq]

\* Hover answers
NoAnswer == [kind |-> "none", content |-> CSymbol(<<>>)]

\* "You're hovering on a {:?}" of the content of the token
HoveringOn(c) == [kind |-> "token", content |-> c]

\* "Not sure what this is"
NotSure == [kind |-> "fallback", content |-> CSymbol(<<>>)]

\* The text a request about identity d is answered from: the backend keeps
\* one text_file, whatever the identity.
StoredText(d) == text_file

\* main: text_file is the empty string, nothing is in flight
ServerIdle ==
    /\ text_file = <<>>
    /\ holder = "none"
    /\ pc = [t \in Tasks |-> "idle"]
    /\ req = [t \in Tasks |-> NoReq]
    /\ resp = [t \in Tasks |-> NoAnswer]
    /\ opened = {}

\* The invocation moves on to another point of its handler.
Goto(t, to) == pc' = [pc EXCEPT ![t] = to]

\* An await on client.log_message completes.
Logged(t, from, to) ==
    /\ pc[t] = from
    /\ Goto(t, to)
    /\ UNCHANGED <<text_file, holder, req, resp, opened, lexVars, foldVars, parseVars>>

\* did_open is invoked and awaits its first log_message
DidOpenStart(t, uri, text) ==
    /\ pc[t] = "idle"
    /\ req' = [req EXCEPT ![t] = Req("did_open", uri, text, <<>>, 0, 0)]
    /\ Goto(t, "open_log1")
    /\ UNCHANGED <<text_file, holder, resp, opened, lexVars, foldVars, parseVars>>

OpenLogged(t) == Logged(t, "open_log1", "open_lock")

\* did_open that stores the text whatever lock() returned
OpenStore_lock_result_ignored(t) ==
    /\ pc[t] = "open_lock"
    /\ holder \notin Tasks
    /\ text_file' = req[t].text
    /\ opened' = opened \cup {req[t].uri}
    /\ Goto(t, "open_log2")
    /\ UNCHANGED <<holder, req, resp, lexVars, foldVars, parseVars>>

\* if let Ok(mut text_file) = self.text_file.lock() { *text_file = text; }
\* and the second log_message is awaited.  lock() waits while the guard is
\* held, and is an Err when the mutex is poisoned: the store is passed over.
OpenStore(t) ==
    /\ pc[t] = "open_lock"
    /\ holder \notin Tasks
    /\ IF holder = "none"
       THEN /\ text_file' = req[t].text
            /\ opened' = opened \cup {req[t].uri}
       ELSE UNCHANGED <<text_file, opened>>
    /\ Goto(t, "open_log2")
    /\ UNCHANGED <<holder, req, resp, lexVars, foldVars, parseVars>>

\* The second log_message is done: did_open returns
OpenDone(t) ==
    /\ pc[t] = "open_log2"
    /\ Return(t)
    /\ UNCHANGED <<text_file, holder, resp, opened, lexVars, foldVars, parseVars>>

\* did_change is invoked and awaits its first log_message
DidChangeStart(t, changes) ==
    /\ pc[t] = "idle"
    /\ req' = [req EXCEPT ![t] = Req("did_change", "d1", <<>>, changes, 0, 0)]
    /\ Goto(t, "change_log1")
    /\ UNCHANGED <<text_file, holder, resp, opened, lexVars, foldVars, parseVars>>

ChangeLogged(t) == Logged(t, "change_log1", "change_for")

\* for change in params.content_changes: the test of the if let; a change
\* that fails it is passed over
ChangeFor(t) ==
    /\ pc[t] = "change_for"
    /\ req[t].ci <= Len(req[t].changes)
    /\ LET change == req[t].changes[req[t].ci]
       IN  IF change.range /\ change.range_length
           THEN /\ Goto(t, "change_log2")
                /\ UNCHANGED req
           ELSE /\ req' = [req EXCEPT ![t].ci = @ + 1]
                /\ UNCHANGED pc
    /\ UNCHANGED <<text_file, holder, resp, opened, lexVars, foldVars, parseVars>>

ChangeLogged2(t) == Logged(t, "change_log2", "change_lock")

\* if let Ok(mut text_file) = self.text_file.lock() { *text_file = change.text; }
\* (passed over when lock() is an Err)
ChangeStore(t) ==
    /\ pc[t] = "change_lock"
    /\ holder \notin Tasks
    /\ IF holder = "none"
       THEN text_file' = req[t].changes[req[t].ci].text
       ELSE UNCHANGED text_file
    /\ req' = [req EXCEPT ![t].ci = @ + 1]
    /\ Goto(t, "change_for")
    /\ UNCHANGED <<holder, resp, opened, lexVars, foldVars, parseVars>>

\* The changes are exhausted: did_change returns
ChangeReturn(t) ==
    /\ pc[t] = "change_for"
    /\ req[t].ci > Len(req[t].changes)
    /\ Return(t)
    /\ UNCHANGED <<text_file, holder, resp, opened, lexVars, foldVars, parseVars>>

\* hover is invoked and awaits its first log_message.  Until hover reads the
\* buffer, the text field keeps the text that was stored at the invocation;
\* the handler does not read the field.
HoverStart(t, line, character) ==
    /\ pc[t] = "idle"
    /\ req' = [req EXCEPT ![t] = Req("hover", "d1", text_file, <<>>, line, character)]
    /\ Goto(t, "hover_log1")
    /\ UNCHANGED <<text_file, holder, resp, opened, lexVars, foldVars, parseVars>>

HoverLogged(t) == Logged(t, "hover_log1", "hover_lock")

\* if let Ok(text_file) = self.text_file.lock(): parsing::lex_line(str) is
\* entered with the whole stored text, the guard held.  When lock() is an Err
\* the block is passed over and the last log_message awaited.
HoverLock(t) ==
    /\ pc[t] = "hover_lock"
    /\ holder \notin Tasks
    /\ IF holder = "none"
       THEN /\ holder' = t
            /\ LexCall(text_file)
            /\ Goto(t, "hover_lex")
       ELSE /\ Goto(t, "hover_log2")
            /\ UNCHANGED <<holder, lexVars>>
    /\ req' = [req EXCEPT ![t].text = <<>>]
    /\ UNCHANGED <<text_file, resp, opened, foldVars, parseVars>>

\* tokens.iter().filter(|t| t.position.location_offset() >= character).last()
FilterLast(toks, character) ==
    LET kept == SelectSeq(toks, LAMBDA tok : tok.position >= character)
    IN  IF kept = <<>> THEN <<>> ELSE <<kept[Len(kept)]>>

\* hover that keeps the guard while it awaits the last log_message
HoverLexed_guard_kept(t) ==
    /\ pc[t] = "hover_lex"
    /\ holder = t
    /\ lexRet.st \in {"Ok", "Err"}
    /\ LET found == IF lexRet.st = "Ok"
                    THEN FilterLast(lexRet.tokens, req[t].character)
                    ELSE <<>>
       IN  IF found # <<>>
           THEN /\ resp' = [resp EXCEPT ![t] = HoveringOn(found[1].content)]
                /\ Goto(t, "hover_answered")
                /\ holder' = "none"
           ELSE /\ Goto(t, "hover_log2")
                /\ UNCHANGED <<resp, holder>>
    /\ lexRet' = NoRet("idle")
    /\ UNCHANGED <<input, rest, tokens, text_file, req, opened, foldVars, parseVars>>

\* lex_line has returned to hover: the answer with a token, or the guard is
\* dropped and the last log_message awaited
HoverLexed(t) ==
    /\ pc[t] = "hover_lex"
    /\ holder = t
    /\ lexRet.st \in {"Ok", "Err"}
    /\ LET found == IF lexRet.st = "Ok"
                    THEN FilterLast(lexRet.tokens, req[t].character)
                    ELSE <<>>
       IN  IF found # <<>>
           THEN /\ resp' = [resp EXCEPT ![t] = HoveringOn(found[1].content)]
                /\ Goto(t, "hover_answered")
           ELSE /\ Goto(t, "hover_log2")
                /\ UNCHANGED resp
    /\ holder' = "none"
    /\ lexRet' = NoRet("idle")
    /\ UNCHANGED <<input, rest, tokens, text_file, req, opened, foldVars, parseVars>>

\* The last log_message is done: the fallback answer
HoverFallback(t) ==
    /\ pc[t] = "hover_log2"
    /\ resp' = [resp EXCEPT ![t] = NotSure]
    /\ Goto(t, "hover_answered")
    /\ UNCHANGED <<text_file, holder, req, opened, lexVars, foldVars, parseVars>>

\* The answer of hover has gone to the client: the invocation is over
HoverDone(t) ==
    /\ pc[t] = "hover_answered"
    /\ resp' = [resp EXCEPT ![t] = NoAnswer]
    /\ Return(t)
    /\ UNCHANGED <<text_file, holder, opened, lexVars, foldVars, parseVars>>

-----------------------------------------------------------------------------
(* The inputs of the lexer *)

Pieces == {<<" ">>, <<"\t">>, <<Quote>>, <<"=">>, <<"a">>, <<"!">>, KwModule, KwWhere}

RECURSIVE Concats(_)
Concats(n) ==
    IF n = 0 THEN {<<>>}
    ELSE LET shorter == Concats(n - 1)
         IN  shorter \cup {p \o s : p \in Pieces, s \in shorter}

\* The inputs of the tests of parsing.rs and of the end-to-end example.
Samples == {Hello, <<Quote>> \o Hello \o <<Quote>>, <<" ", " ", " ", " ">>, ModuleFooWhere}

Inputs == Concats(MaxPieces) \cup Samples

\* No fold is in progress.
FoldIdle ==
    /\ items = <<>>
    /\ k = 1
    /\ acc = Ok(PEmpty)
    /\ call = NoCall

InitLex ==
    /\ input \in Inputs
    /\ rest = NewSpan(input)
    /\ tokens = <<>>
    /\ lexRet = NoRet("loop")
    /\ FoldIdle
    /\ ParseIdle
    /\ ServerIdle

NextLex == LexLineStep

SpecLex == InitLex /\ [][NextLex]_vars

-----------------------------------------------------------------------------
(* combine_parts as a function: the fold is started from any first result  *)
(* and runs over any results, those carrying errors included.  In          *)
(* parse_expr the first result is Ok(PartialExpr::Empty).                  *)

PartialExprs ==
    {PEmpty, PPartial("None", "None", "None"), PPartial("SomeEmpty", "None", "None")}

RECURSIVE ErrLists(_)
ErrLists(n) ==
    IF n = 0 THEN {<<>>}
    ELSE LET shorter == ErrLists(n - 1)
         IN  shorter \cup {<<e>> \o es : e \in ParseErrors, es \in shorter}

\* A per-line result: a PartialExpr or a non-empty error list
Results ==
    {Ok(v) : v \in PartialExprs} \cup {Err(es) : es \in ErrLists(MaxErrs) \ {<<>>}}

ResultSeqs == UNION {[1..n -> Results] : n \in 2..MaxItems}

NoLex ==
    /\ input = <<>>
    /\ rest = NewSpan(<<>>)
    /\ tokens = <<>>
    /\ lexRet = NoRet("idle")

InitCombine ==
    /\ items \in ResultSeqs
    /\ acc = items[1]
    /\ k = 2
    /\ call = NoCall
    /\ NoLex
    /\ ParseIdle
    /\ ServerIdle

NextCombine == FoldStep

SpecCombine == InitCombine /\ [][NextCombine]_vars

-----------------------------------------------------------------------------
(* parse_expr on a document *)

DocChars == {"a", "!", "\n"}

Docs == UNION {[1..n -> DocChars] : n \in 0..MaxDoc}

InitParse ==
    /\ doc \in Docs
    /\ lineIdx = 1
    /\ partials = <<>>
    /\ parsePc = "for"
    /\ exprRet = NoExpr
    /\ NoLex
    /\ FoldIdle
    /\ ServerIdle

NextParse ==
    \/ ParseNextLine
    \/ LexLineStep
    \/ ParseLineLexed
    \/ ParseFoldStart
    \/ FoldStep
    \/ ParseReturn

SpecParse == InitParse /\ [][NextParse]_vars

-----------------------------------------------------------------------------
(* The backend serving open, change and hover *)

\* The texts the editor delivers: the empty text, a line of two tokens, a
\* line with an illegal character, and a text of two lines.
Texts == {<<>>, <<"=", "a">>, <<"!">>, <<"a", "\n", "=">>}

\* The content changes the editor delivers: a full replacement (no range),
\* a ranged change, and one with a range but no range_length.
Changes ==
    {Change(FALSE, FALSE, <<"=", "a">>),
     Change(TRUE, TRUE, <<"!">>),
     Change(TRUE, FALSE, <<"a", "\n", "=">>)}

ChangeSeqs == UNION {[1..n -> Changes] : n \in 0..MaxChanges}

Init ==
    /\ ServerIdle
    /\ NoLex
    /\ FoldIdle
    /\ ParseIdle

Next ==
    \/ \E t \in Tasks, uri \in Uris, text \in Texts : DidOpenStart(t, uri, text)
    \/ \E t \in Tasks : OpenLogged(t)
    \/ \E t \in Tasks : OpenStore(t)
    \/ \E t \in Tasks : OpenDone(t)
    \/ \E t \in Tasks, changes \in ChangeSeqs : DidChangeStart(t, changes)
    \/ \E t \in Tasks : ChangeLogged(t)
    \/ \E t \in Tasks : ChangeFor(t)
    \/ \E t \in Tasks : ChangeLogged2(t)
    \/ \E t \in Tasks : ChangeStore(t)
    \/ \E t \in Tasks : ChangeReturn(t)
    \/ \E t \in Tasks, line \in 0..MaxLine, character \in 0..MaxCol :
           HoverStart(t, line, character)
    \/ \E t \in Tasks : HoverLogged(t)
    \/ \E t \in Tasks : HoverLock(t)
    \/ LexLineStep
    \/ \E t \in Tasks : HoverLexed(t)
    \/ \E t \in Tasks : HoverFallback(t)
    \/ \E t \in Tasks : HoverDone(t)

Spec == Init /\ [][Next]_vars

-----------------------------------------------------------------------------
(* The backend once the mutex of text_file is poisoned: lock() is an Err   *)
(* for every handler from then on, so lex_line is never entered.           *)

InitPoisoned ==
    /\ text_file \in Texts
    /\ holder = "poisoned"
    /\ pc = [t \in Tasks |-> "idle"]
    /\ req = [t \in Tasks |-> NoReq]
    /\ resp = [t \in Tasks |-> NoAnswer]
    /\ opened = {}
    /\ NoLex
    /\ FoldIdle
    /\ ParseIdle

NextPoisoned ==
    \/ \E t \in Tasks, uri \in Uris, text \in Texts : DidOpenStart(t, uri, text)
    \/ \E t \in Tasks : OpenLogged(t)
    \/ \E t \in Tasks : OpenStore(t)
    \/ \E t \in Tasks : OpenDone(t)
    \/ \E t \in Tasks, changes \in ChangeSeqs : DidChangeStart(t, changes)
    \/ \E t \in Tasks : ChangeLogged(t)
    \/ \E t \in Tasks : ChangeFor(t)
    \/ \E t \in Tasks : ChangeLogged2(t)
    \/ \E t \in Tasks : ChangeStore(t)
    \/ \E t \in Tasks : ChangeReturn(t)
    \/ \E t \in Tasks, line \in 0..MaxLine, character \in 0..MaxCol :
           HoverStart(t, line, character)
    \/ \E t \in Tasks : HoverLogged(t)
    \/ \E t \in Tasks : HoverLock(t)
    \/ \E t \in Tasks : HoverFallback(t)
    \/ \E t \in Tasks : HoverDone(t)

SpecPoisoned == InitPoisoned /\ [][NextPoisoned]_vars

-----------------------------------------------------------------------------
(* Properties of lex_line *)

\* C1 (as claimed): every iteration of the loop of lex_line consumes at
\* least one character of the remaining input, so lex_line terminates.
C1_EachIterationConsumes ==
    [][(lexRet.st = "loop" /\ lexRet'.st = "loop")
          => Len(rest'.fragment) < Len(rest.fragment)]_vars

\* The remaining input matches no rule of the grammar: it starts with an
\* illegal character, or with a double quote that is never closed.
NoRuleMatches(frag) ==
    /\ frag # <<>>
    /\ \/ Head(frag) \notin (SpaceChars \cup Alphanumeric \cup {Quote, "="})
       \/ /\ Head(frag) = Quote
          /\ \A i \in 2..Len(frag) : frag[i] # Quote

\* C2 (as claimed): when the remaining input at a token boundary matches no
\* rule, lex_line returns Err(ParseError::Wrong) and no token.
C2_NoRuleIsWrong ==
    [][(lexRet.st = "loop" /\ NoRuleMatches(rest.fragment))
          => lexRet' = RetErr("Wrong")]_vars

Foo == <<"F", "o", "o">>

Contents(toks) == [i \in 1..Len(toks) |-> toks[i].content]

\* C3 (as claimed): the returned tokens are in source order, their offsets
\* non-decreasing along the vector, and "module Foo where" yields
\* [Module, Space(1), Symbol("Foo"), Space(1), Where].
C3_SourceOrder ==
    lexRet.st = "Ok" =>
        /\ \A i \in 1..(Len(lexRet.tokens) - 1) :
               lexRet.tokens[i].position <= lexRet.tokens[i + 1].position
        /\ input = ModuleFooWhere =>
               Contents(lexRet.tokens)
                   = <<CModule, CSpace(1), CSymbol(Foo), CSpace(1), CWhere>>

\* The tokens sorted by recorded offset (insertion sort, stable).
RECURSIVE InsertByPosition(_, _)
InsertByPosition(tok, sorted) ==
    IF sorted = <<>> THEN <<tok>>
    ELSE IF tok.position < Head(sorted).position THEN <<tok>> \o sorted
    ELSE <<Head(sorted)>> \o InsertByPosition(tok, Tail(sorted))

RECURSIVE SourceOrder(_)
SourceOrder(toks) ==
    IF toks = <<>> THEN <<>>
    ELSE InsertByPosition(Head(toks), SourceOrder(Tail(toks)))

\* The source text a token content stands for; a whitespace run records
\* only its length.
Denotes(c, slice) ==
    CASE c.kind = "Module" -> slice = KwModule
      [] c.kind = "Where" -> slice = KwWhere
      [] c.kind = "Equals" -> slice = <<"=">>
      [] c.kind = "String" -> slice = <<Quote>> \o c.text \o <<Quote>>
      [] c.kind = "Symbol" -> slice = c.text
      [] c.kind = "Space" ->
            /\ Len(slice) = c.len
            /\ \A i \in 1..Len(slice) : slice[i] \in SpaceChars
      [] OTHER -> FALSE

RECURSIVE Flatten(_)
Flatten(ss) == IF ss = <<>> THEN <<>> ELSE Head(ss) \o Flatten(Tail(ss))

\* C4: on success the tokens, taken in source order, partition the input:
\* each recorded offset ends its token's text and starts the next one's, the
\* first text starts at 0, the last offset is the input length, and the
\* delimited substrings, each the text of its token, concatenate to the input.
C4_RoundTrip ==
    lexRet.st = "Ok" =>
        LET src == SourceOrder(lexRet.tokens)
            n == Len(src)
            Start(i) == IF i = 1 THEN 0 ELSE src[i - 1].position
            Slice(i) == SubSeq(input, Start(i) + 1, src[i].position)
        IN  /\ \A i \in 1..n : Start(i) < src[i].position
            /\ \A i \in 1..n : src[i].position <= Len(input)
            /\ IF n = 0 THEN input = <<>> ELSE src[n].position = Len(input)
            /\ \A i \in 1..n : Denotes(src[i].content, Slice(i))
            /\ Flatten([i \in 1..n |-> Slice(i)]) = input

\* lex_line has returned five tokens, a keyword, runs of spaces and a symbol
\* among them.
C4_Witness ==
    /\ lexRet.st = "Ok"
    /\ Len(lexRet.tokens) = 5
    /\ \E i \in 1..5 : lexRet.tokens[i].content.kind = "Space"
    /\ \E i \in 1..5 : lexRet.tokens[i].content.kind = "Symbol"

-----------------------------------------------------------------------------
(* Properties of combine_parts *)

\* C5 (as claimed): PartialExpr::Empty is the identity of combine_parts:
\* combine_parts(Ok(Empty), Ok(X)) and combine_parts(Ok(X), Ok(Empty)) are
\* both Ok(X).
C5_EmptyIsIdentity ==
    call.made =>
        /\ (call.left = Ok(PEmpty) /\ call.right.st = "Ok") => call.out = call.right
        /\ (call.right = Ok(PEmpty) /\ call.left.st = "Ok") => call.out = call.left

\* The results of combining the sequence under every grouping that keeps
\* its order (every binary tree over it).
RECURSIVE AllGroupings(_)
AllGroupings(seq) ==
    IF Len(seq) = 1 THEN {seq[1]}
    ELSE UNION {{combine_parts(x, y) :
                    x \in AllGroupings(SubSeq(seq, 1, i)),
                    y \in AllGroupings(SubSeq(seq, i + 1, Len(seq)))} :
                i \in 1..(Len(seq) - 1)}

RECURSIVE Count(_, _)
Count(e, es) ==
    IF es = <<>> THEN 0
    ELSE (IF Head(es) = e THEN 1 ELSE 0) + Count(e, Tail(es))

SameErrors(a, b) == \A e \in ParseErrors : Count(e, a.errs) = Count(e, b.errs)

\* The same value when no error is carried, the same multiset of errors
\* otherwise.
SameOutcome(a, b) ==
    /\ a.st = b.st
    /\ a.val = b.val
    /\ SameErrors(a, b)

\* C6: the left-to-right fold of a sequence of results gives the same
\* outcome as every other grouping of the sequence (right-to-left and
\* balanced ones included).
C6_Associative ==
    k > Len(items) /\ items # <<>> =>
        \A g \in AllGroupings(items) : SameOutcome(g, acc)

\* A fold over four results, values and errors among them, has finished.
C6_Witness ==
    /\ Len(items) = 4
    /\ k > Len(items)
    /\ \E i, j \in 1..4 : items[i].st = "Ok" /\ items[j].st = "Err"
    /\ \E i \in 1..4 : items[i].st = "Ok" /\ items[i].val # PEmpty

\* C7: when an argument of combine_parts carries errors the result is an
\* error without a value, and its errors are those of the left argument and
\* those of the right one, each once.
C7_ErrorsConcatenated ==
    (call.made /\ (call.left.st = "Err" \/ call.right.st = "Err")) =>
        /\ call.out.st = "Err"
        /\ call.out.val = NoValue
        /\ \A e \in ParseErrors :
               Count(e, call.out.errs)
                   = Count(e, call.left.errs) + Count(e, call.right.errs)

\* combine_parts has been called with errors on both sides.
C7_Witness ==
    /\ call.made
    /\ call.left.st = "Err"
    /\ call.right.st = "Err"
    /\ Len(call.left.errs) + Len(call.right.errs) >= 3

-----------------------------------------------------------------------------
(* Properties of parse_expr *)

\* Lexing the line fails: walking it rule by rule reaches a token boundary
\* where no rule matches, or where a rule matches the empty text only.
RECURSIVE FailsFrom(_)
FailsFrom(s) ==
    IF s.fragment = <<>> THEN FALSE
    ELSE IF NoRuleMatches(s.fragment) THEN TRUE
    ELSE LET r == lexer(s)
         IN  IF ~r.ok \/ r.rest = s THEN TRUE ELSE FailsFrom(r.rest)

LineFails(line) == FailsFrom(NewSpan(line))

FailingLines(text) == {i \in 1..Len(Lines(text)) : LineFails(Lines(text)[i])}

\* The token was lexed from no text at all.
EmptyToken(tok) == tok.content.kind = "Symbol" /\ tok.content.text = <<>>

\* C8 (as claimed): for a document with two failing lines, the failure of a
\* line ends the analysis of that line only (lexing never goes on past the
\* point where no rule matched), and the combined result of the document
\* carries exactly 2 errors.
C8_TwoFailingLinesTwoErrors ==
    Cardinality(FailingLines(doc)) = 2 =>
        /\ (parsePc = "lex" /\ lexRet.st = "loop") =>
               \A i \in 1..Len(tokens) : ~EmptyToken(tokens[i])
        /\ (parsePc = "fold" /\ k > Len(items)) =>
               (acc.st = "Err" /\ Len(acc.errs) = 2)

-----------------------------------------------------------------------------
(* Properties of the backend *)

\* C9 (as claimed): when did_change processes a content change without a
\* range, carrying the full replacement text T, the stored text becomes T.
C9_FullChangeStored ==
    [][\A t \in Tasks :
          (/\ pc[t] = "change_for"
           /\ req[t].ci <= Len(req[t].changes)
           /\ ~req[t].changes[req[t].ci].range
           /\ req'[t].ci = req[t].ci + 1)
              => text_file' = req[t].changes[req[t].ci].text]_vars

\* C10 (as claimed): when did_open stores text T for identity d, the text
\* stored for d becomes T and the text stored for every other identity that
\* has been opened is unchanged.
C10_OpenKeepsOtherDocuments ==
    [][\A t \in Tasks :
          (pc[t] = "open_lock" /\ pc'[t] = "open_log2")
              => /\ StoredText(req[t].uri)' = req[t].text
                 /\ \A d \in opened \ {req[t].uri} : StoredText(d)' = StoredText(d)]_vars

-----------------------------------------------------------------------------
(* Properties of the rules of the lexer *)

\* lex_line is at a token boundary and the step lexes one more token.
LexesToken == lexRet.st = "loop" /\ tokens' # tokens

\* lex_line returns in this step, with exactly the one token tok.
ReturnsOne(tok) == lexRet'.st = "Ok" => lexRet'.tokens = <<tok>>

\* C16: whenever the remaining input at a token boundary begins with
\* "module" (or "where"), the token lexed there is Module (or Where), never
\* a Symbol; and the inputs "module", "where" and "=" lex to exactly one
\* token each, Module, Where and Equals.
C16_ReservedWordsFirst ==
    [][/\ (LexesToken /\ IsPrefix(KwModule, rest.fragment)) =>
              /\ Head(tokens').content = CModule
              /\ rest'.fragment = Drop(rest.fragment, Len(KwModule))
       /\ (LexesToken /\ IsPrefix(KwWhere, rest.fragment)) =>
              /\ Head(tokens').content = CWhere
              /\ rest'.fragment = Drop(rest.fragment, Len(KwWhere))
       /\ input = KwModule => ReturnsOne(Token(Len(KwModule), CModule))
       /\ input = KwWhere => ReturnsOne(Token(Len(KwWhere), CWhere))
       /\ input = <<"=">> => ReturnsOne(Token(1, CEquals))]_vars

\* lex_line has returned from an input where a reserved word follows a
\* symbol and a space: the reserved word was lexed as such.
C16_Witness ==
    /\ lexRet.st = "Ok"
    /\ input = <<"a", " ">> \o KwWhere
    /\ Contents(lexRet.tokens) = <<CWhere, CSpace(1), CSymbol(<<"a">>)>>

\* The input is a double quote, a text without double quotes, and a double
\* quote.
IsQuoted(s) ==
    /\ Len(s) >= 2
    /\ s[1] = Quote
    /\ s[Len(s)] = Quote
    /\ \A i \in 2..(Len(s) - 1) : s[i] # Quote

Unquoted(s) == SubSeq(s, 2, Len(s) - 1)

\* C17 (as claimed): for every text t without a double quote, of any length,
\* the input made of a double quote, t and a double quote lexes to exactly
\* one String token whose content is t: the first iteration of lex_line
\* lexes it and leaves nothing of the input.
C17_QuotedIsOneString ==
    [][(lexRet.st = "loop" /\ tokens = <<>> /\ rest = NewSpan(input) /\ IsQuoted(input))
          => /\ tokens' = <<Token(Len(input), CString(Unquoted(input)))>>
             /\ rest'.fragment = <<>>]_vars

\* The input is one or more space characters, and nothing else.
IsSpaces(s) == s # <<>> /\ \A i \in 1..Len(s) : s[i] = " "

\* C18: an input of n >= 1 space characters lexes to exactly one token,
\* Space(n), and in no result of lex_line are two whitespace tokens
\* adjacent (a run is never split).
C18_SpacesAreOneRun ==
    lexRet.st = "Ok" =>
        /\ IsSpaces(input) =>
               lexRet.tokens = <<Token(Len(input), CSpace(Len(input)))>>
        /\ \A i \in 1..(Len(lexRet.tokens) - 1) :
               ~(/\ lexRet.tokens[i].content.kind = "Space"
                 /\ lexRet.tokens[i + 1].content.kind = "Space")

\* lex_line has returned from an input of three spaces or more.
C18_Witness ==
    /\ lexRet.st = "Ok"
    /\ IsSpaces(input)
    /\ Len(input) >= 3
    /\ Len(lexRet.tokens) = 1

\* The input is alphanumeric, not empty, and does not begin with a reserved
\* word.
IsPlainName(s) ==
    /\ s # <<>>
    /\ \A i \in 1..Len(s) : s[i] \in Alphanumeric
    /\ ~IsPrefix(KwModule, s)
    /\ ~IsPrefix(KwWhere, s)

\* C19: a non-empty alphanumeric input that does not begin with a reserved
\* word lexes to exactly one Symbol token whose content is the whole input.
C19_NameIsOneSymbol ==
    (lexRet.st = "Ok" /\ IsPlainName(input)) =>
        lexRet.tokens = <<Token(Len(input), CSymbol(input))>>

\* lex_line has returned from a name that holds a reserved word after its
\* first character.
C19_Witness ==
    /\ lexRet.st = "Ok"
    /\ input = <<"a">> \o KwModule
    /\ Len(lexRet.tokens) = 1

-----------------------------------------------------------------------------
(* Properties of hover *)

SingleLine(text) == \A i \in 1..Len(text) : text[i] # "\n"

\* The first token, in source order, whose recorded offset is at least c;
\* the empty sequence when there is none.
FirstAtOrAfter(toks, c) ==
    LET src == SourceOrder(toks)
        at == {i \in 1..Len(src) : src[i].position >= c}
    IN  IF at = {} THEN <<>>
        ELSE <<src[CHOOSE i \in at : \A j \in at : i <= j]>>

\* C11 (as claimed): on a single-line text, hover at column c answers with
\* the description of the first token in source order whose recorded offset
\* is at least c; when lexing fails (it stops with an error where no rule
\* matches) or no token has such an offset, hover answers with the fallback.
C11_HoverFirstTokenAtOrAfter ==
    [][\A t \in Tasks :
          /\ (pc[t] = "hover_lex" /\ SingleLine(input)) =>
                /\ (lexRet.st = "loop" /\ NoRuleMatches(rest.fragment)) =>
                       (lexVars' = lexVars \/ lexRet'.st = "Err")
                /\ pc'[t] # "hover_lex" =>
                       LET first == FirstAtOrAfter(lexRet.tokens, req[t].character)
                       IN  IF lexRet.st = "Ok" /\ first # <<>>
                           THEN /\ pc'[t] = "hover_answered"
                                /\ resp'[t] = HoveringOn(first[1].content)
                           ELSE pc'[t] = "hover_log2"
          /\ (pc[t] = "hover_log2" /\ pc'[t] # "hover_log2") => resp'[t] = NotSure]_vars

\* C12 (as claimed): hover honours the requested line: for a stored text of
\* several lines, hover at line L lexes the text of line L only.
C12_HoverLexesRequestedLine ==
    [][\A t \in Tasks :
          (/\ pc[t] = "hover_lock"
           /\ pc'[t] = "hover_lex"
           /\ Len(Lines(text_file)) >= 2
           /\ req[t].line < Len(Lines(text_file)))
              => input' = Lines(text_file)[req[t].line + 1]]_vars

-----------------------------------------------------------------------------
(* Properties of the requests in flight *)

\* C13 (as claimed): every started request runs to completion: none holds
\* the buffer for ever and none waits for ever to acquire it.  The request
\* that holds the buffer comes nearer to releasing it at each step of its
\* work: an iteration of its lexing returns or leaves less text to lex.
C13_HolderComesToRelease ==
    [][(holder \in Tasks /\ lexRet.st = "loop" /\ lexVars' # lexVars)
          => \/ lexRet'.st \in {"Ok", "Err"}
             \/ Len(rest'.fragment) < Len(rest.fragment)]_vars

\* C14 (as claimed): hover is answered from the text that was stored when
\* the request started, whatever open or change stores before the answer:
\* the text hover lexes is the text stored at its invocation.
C14_HoverLexesTextAtStart ==
    [][\A t \in Tasks :
          (pc[t] = "hover_lock" /\ pc'[t] = "hover_lex") => input' = req[t].text]_vars

\* The points where a handler is suspended on client.log_message.
AwaitPoints ==
    {"open_log1", "open_log2", "change_log1", "change_log2", "hover_log1", "hover_log2"}

\* The invocation is between lock() and the drop of the guard.
InGuard(t) == pc[t] = "hover_lex"

\* C20: accesses to the buffer are serialized: at most one invocation is
\* inside a guard at a time, the text it reads is not replaced meanwhile,
\* and no invocation is inside a guard while suspended on an await.
C20_AccessesSerialized ==
    /\ Cardinality({t \in Tasks : InGuard(t)}) <= 1
    /\ \A t \in Tasks : InGuard(t) <=> holder = t
    /\ \A t \in Tasks : InGuard(t) => input = text_file
    /\ \A t \in Tasks : pc[t] \in AwaitPoints => holder # t

\* A hover holds the guard in the middle of its lexing while the other
\* invocation, a did_open with another text, waits at its lock().
C20_Witness ==
    \E t, u \in Tasks :
        /\ InGuard(t)
        /\ lexRet.st = "loop"
        /\ tokens # <<>>
        /\ pc[u] = "open_lock"
        /\ req[u].text # text_file

\* C15: when lock() fails, did_open and did_change leave the stored text as
\* it was, hover answers with the fallback, and no invocation is stuck: each
\* one in flight can take its next step, so the service goes on serving.
C15_LockFailureAbsorbed ==
    [][/\ text_file' = text_file
       /\ \A t \in Tasks :
              (pc[t] # "hover_answered" /\ pc'[t] = "hover_answered")
                  => resp'[t] = NotSure
       /\ \A t \in Tasks :
              pc'[t] # "idle" =>
                  pc'[t] \in AwaitPoints \cup {"hover_answered", "change_for"}
                      \/ holder' \notin Tasks]_vars

\* After the lock failed for them, a did_open that carried another text
\* awaits its last log_message and a hover has answered with the fallback.
C15_Witness ==
    \E t, u \in Tasks :
        /\ holder = "poisoned"
        /\ pc[t] = "open_log2"
        /\ req[t].text # text_file
        /\ pc[u] = "hover_answered"
        /\ resp[u] = NotSure

=============================================================================
